---- MODULE Spec2Model ----
(***************************************************************************)
(* Mailbox ingestion pipeline of indian-alt (emails app).                  *)
(*                                                                         *)
(*   SpecGraph  : GraphAPIService (emails/services/graph_service.py), the  *)
(*                token cache and the retry loop of _make_request, one     *)
(*                caller, every answer of the endpoint.                    *)
(*   SpecTokens : the same with concurrent callers sharing the cache.      *)
(*   Spec       : EmailReaderService (emails/services/email_reader.py),    *)
(*                fetch_emails_for_account and fetch_all_active_accounts   *)
(*                over the Email and EmailAccount tables.                  *)
(*   SpecPaging : one account, mailboxes around the page maximum.          *)
(*   SpecCrash  : one account, a worker that may die inside a fetch.       *)
(*   SpecViews  : the reader behind the HTTP triggers of emails/views.py.  *)
(*   SpecProcess: one account fetched again while stored emails are marked *)
(*                processed.                                               *)
(*   SpecRace   : two workers fetching the same account at the same time.  *)
(*   SpecArrivals: one fetch without a limit while mail arrives, with      *)
(*                weak fairness of the steps of the fetch loop.            *)
(***************************************************************************)
EXTENDS Integers, Sequences, FiniteSets, TLC

(***************************************************************************)
(* Bounds of the model.                                                    *)
(***************************************************************************)
MaxCalls == 2          \* calls the sequential caller makes
MaxConcCalls == 1      \* calls each of the concurrent callers makes
MaxFaults == 3         \* failures the network injects in one run
MaxTime == 3290        \* idle time may pass up to this instant

(***************************************************************************)
(* Program constants.                                                      *)
(***************************************************************************)
TOKEN_CACHE_TIMEOUT == 3300
SAFETY_MARGIN == 300
DEFAULT_EXPIRES_IN == 3600
DEFAULT_RETRY_AFTER == 60
RETRY_COUNT == 3

(***************************************************************************)
(* Inputs drawn by the environment.                                        *)
(***************************************************************************)
Callers == {"t1", "t2"}
SeqCallers == {"t1"}
NoHeader == -1
RetryAfterChoices == {NoHeader, 5}
NoExpiresIn == -1
ExpiresInChoices == {NoExpiresIn, 200, 1800, 7200}
TickSteps == {3290}
NoToken == 0
NoCache == [tok |-> NoToken, until |-> 0]

VARIABLES
    now,          \* wall clock, seconds
    cache,        \* Django cache entry TOKEN_CACHE_KEY: [tok, until]
    issued,       \* tokens the identity provider has issued: <<[at, expires_in]>>
    configured,   \* client id, client secret and tenant id are all set
    pc,           \* position of each caller
    ret,          \* who called get_access_token: "caller", "mr_start", "mr_401"
    token,        \* _make_request's local token (Authorization header)
    attempt,      \* _make_request's loop variable
    calls,        \* calls made so far by each caller
    outcome,      \* how the caller's last call ended
    log,          \* events of the caller's current call
    faults,       \* failures injected so far
    account,      \* EmailAccount table: email -> [is_active, last_synced, sync_error]
    emails,       \* Email table: set of rows
    nextPk,       \* next internal id of an Email row
    mailbox,      \* the messages the Graph endpoint holds for each mailbox
    limit,        \* the limit the operator passes (0: none)
    since,        \* the since datetime the operator passes, or none
    run,          \* fetch_emails_for_account: locals of the call in progress
    fleet,        \* fetch_all_active_accounts: locals of the call in progress
    runs,         \* handler invocations so far
    http,         \* the last request each HTTP trigger received and its validation
    crashes       \* times the worker process died in the middle of a fetch

gvars == <<now, cache, issued, configured, pc, ret, token, attempt, calls, outcome, log, faults>>

rvars == <<account, emails, nextPk, mailbox, limit, since, run, fleet, runs, http, crashes>>

vars == <<gvars, rvars>>

(***************************************************************************)
(* Django cache: get, set with a timeout, delete.                          *)
(***************************************************************************)
CacheGet(c, t) == IF c.tok # NoToken /\ t < c.until THEN c.tok ELSE NoToken

CacheSet(tok, timeout, t) == [tok |-> tok, until |-> t + timeout]

Min(a, b) == IF a < b THEN a ELSE b

Pow2(n) == IF n = 0 THEN 1 ELSE IF n = 1 THEN 2 ELSE IF n = 2 THEN 4 ELSE 8

\* the token cached for as long as the provider says it lives
CacheTimeout_NoMargin(expires_in) == Min(expires_in, TOKEN_CACHE_TIMEOUT)

\* line 103-104: expires_in defaults to 3600; cache for slightly less than expiry
CacheTimeout(expires_in) == Min(expires_in - SAFETY_MARGIN, TOKEN_CACHE_TIMEOUT)

ExpiresIn(field) == IF field = NoExpiresIn THEN DEFAULT_EXPIRES_IN ELSE field

\* a missing Retry-After header read as no wait at all
RetryAfter_NoDefault(header) == IF header = NoHeader THEN 0 ELSE header

\* line 162
RetryAfter(header) == IF header = NoHeader THEN DEFAULT_RETRY_AFTER ELSE header

Ev(kind, a, b) == [ev |-> kind, a |-> a, b |-> b]

InitGraph ==
    /\ now = 0
    /\ cache = NoCache
    /\ issued = <<>>
    /\ configured \in BOOLEAN
    /\ pc = [t \in Callers |-> "idle"]
    /\ ret = [t \in Callers |-> "caller"]
    /\ token = [t \in Callers |-> NoToken]
    /\ attempt = [t \in Callers |-> 0]
    /\ calls = [t \in Callers |-> 0]
    /\ outcome = [t \in Callers |-> "none"]
    /\ log = [t \in Callers |-> <<>>]
    /\ faults = 0
    /\ account = <<>>
    /\ emails = {}
    /\ nextPk = 1
    /\ mailbox = <<>>
    /\ limit = 0
    /\ since = 0
    /\ run = <<>>
    /\ fleet = <<>>
    /\ runs = 0
    /\ http = <<>>
    /\ crashes = 0

(***************************************************************************)
(* get_access_token called directly.                                       *)
(***************************************************************************)
CallGetAccessToken(t, max) ==
    /\ pc[t] = "idle"
    /\ calls[t] < max
    /\ calls' = [calls EXCEPT ![t] = @ + 1]
    /\ pc' = [pc EXCEPT ![t] = "gat"]
    /\ ret' = [ret EXCEPT ![t] = "caller"]
    /\ outcome' = [outcome EXCEPT ![t] = "none"]
    /\ log' = [log EXCEPT ![t] = <<>>]
    /\ token' = [token EXCEPT ![t] = NoToken]
    /\ attempt' = [attempt EXCEPT ![t] = 0]
    /\ UNCHANGED <<now, cache, issued, configured, faults>>

(***************************************************************************)
(* _make_request, line 139: token = self.get_access_token().               *)
(***************************************************************************)
CallMakeRequest(t, max) ==
    /\ pc[t] = "idle"
    /\ calls[t] < max
    /\ calls' = [calls EXCEPT ![t] = @ + 1]
    /\ pc' = [pc EXCEPT ![t] = "gat"]
    /\ ret' = [ret EXCEPT ![t] = "mr_start"]
    /\ outcome' = [outcome EXCEPT ![t] = "none"]
    /\ log' = [log EXCEPT ![t] = <<>>]
    /\ token' = [token EXCEPT ![t] = NoToken]
    /\ attempt' = [attempt EXCEPT ![t] = 0]
    /\ UNCHANGED <<now, cache, issued, configured, faults>>

(***************************************************************************)
(* What the caller of get_access_token does with the token it returns.     *)
(*   caller   : the call is over                                           *)
(*   mr_start : lines 140-149, enter the loop with attempt 0               *)
(*   mr_401   : lines 172-173, new header, continue; after the last        *)
(*              attempt the loop is over and line 192 raises               *)
(***************************************************************************)
ReturnToken(t, tok, entry) ==
    /\ token' = [token EXCEPT ![t] = tok]
    /\ log' = [log EXCEPT ![t] = Append(@, entry)]
    /\ CASE ret[t] = "caller" ->
              /\ pc' = [pc EXCEPT ![t] = "idle"]
              /\ outcome' = [outcome EXCEPT ![t] = "ok"]
              /\ UNCHANGED attempt
         [] ret[t] = "mr_start" ->
              /\ pc' = [pc EXCEPT ![t] = "send"]
              /\ UNCHANGED <<attempt, outcome>>
         [] ret[t] = "mr_401" ->
              /\ attempt' = [attempt EXCEPT ![t] = @ + 1]
              /\ IF attempt[t] + 1 < RETRY_COUNT
                    THEN /\ pc' = [pc EXCEPT ![t] = "send"]
                         /\ UNCHANGED outcome
                    ELSE /\ pc' = [pc EXCEPT ![t] = "idle"]
                         /\ outcome' = [outcome EXCEPT ![t] = "failed_after_attempts"]

\* get_access_token raises: nothing in _make_request catches a plain
\* Exception or a ValueError, so the call ends with it.
RaiseFromToken(t, error) ==
    /\ pc' = [pc EXCEPT ![t] = "idle"]
    /\ outcome' = [outcome EXCEPT ![t] = error]
    /\ log' = [log EXCEPT ![t] = Append(@, Ev("raise", error, now))]
    /\ UNCHANGED <<token, attempt>>

(***************************************************************************)
(* get_access_token, lines 62-73: the cache lookup and the credentials     *)
(* check.                                                                  *)
(***************************************************************************)
GetAccessTokenCheck(t) ==
    /\ pc[t] = "gat"
    /\ LET cached_token == CacheGet(cache, now) IN
         IF cached_token # NoToken
            THEN ReturnToken(t, cached_token, Ev("cached", cached_token, now))
            ELSE IF ~configured
                    THEN RaiseFromToken(t, "not_configured")
                    ELSE /\ pc' = [pc EXCEPT ![t] = "gat_post"]
                         /\ UNCHANGED <<token, attempt, outcome, log>>
    /\ UNCHANGED <<now, cache, issued, configured, ret, calls, faults>>

(***************************************************************************)
(* get_access_token, lines 85-115: the token exchange and its answer.      *)
(***************************************************************************)
GetAccessTokenPost(t) ==
    /\ pc[t] = "gat_post"
    /\ \/ \E field \in ExpiresInChoices :
            LET access_token == Len(issued) + 1
                expires_in == ExpiresIn(field)
            IN  /\ issued' = Append(issued, [at |-> now, expires_in |-> expires_in])
                /\ cache' = CacheSet(access_token, CacheTimeout(expires_in), now)
                /\ ReturnToken(t, access_token, Ev("exchange", access_token, now))
                /\ UNCHANGED faults
       \/ /\ faults < MaxFaults
          /\ faults' = faults + 1
          /\ RaiseFromToken(t, "auth_failed")
          /\ UNCHANGED <<issued, cache>>
    /\ UNCHANGED <<now, configured, ret, calls>>

(***************************************************************************)
(* _make_request, lines 151-158: one request goes out with the header      *)
(* built from the local token.                                             *)
(***************************************************************************)
SendRequest(t) ==
    /\ pc[t] = "send"
    /\ log' = [log EXCEPT ![t] = Append(@, Ev("send", token[t], now))]
    /\ pc' = [pc EXCEPT ![t] = "await"]
    /\ UNCHANGED <<now, cache, issued, configured, ret, token, attempt, calls, outcome, faults>>

\* `continue`, or falling out of the for loop into line 192.
Continue(t) ==
    /\ attempt' = [attempt EXCEPT ![t] = @ + 1]
    /\ IF attempt[t] + 1 < RETRY_COUNT
          THEN /\ pc' = [pc EXCEPT ![t] = "send"]
               /\ UNCHANGED outcome
          ELSE /\ pc' = [pc EXCEPT ![t] = "idle"]
               /\ outcome' = [outcome EXCEPT ![t] = "failed_after_attempts"]

\* lines 175-176: a success status, the body is returned
OnSuccess(t) ==
    /\ pc' = [pc EXCEPT ![t] = "idle"]
    /\ outcome' = [outcome EXCEPT ![t] = "ok"]
    /\ log' = [log EXCEPT ![t] = Append(@, Ev("resp", "ok", now))]
    /\ UNCHANGED <<now, cache, ret, attempt>>

\* lines 161-165: 429, sleep Retry-After seconds (60 without the header)
OnRateLimited(t, header) ==
    LET retry_after == RetryAfter(header) IN
    /\ log' = [log EXCEPT ![t] =
                 @ \o <<Ev("resp429", header, now), Ev("sleep", retry_after, now)>>]
    /\ now' = now + retry_after
    /\ Continue(t)
    /\ UNCHANGED <<cache, ret>>

\* lines 168-171: 401, the cached token is deleted and a token is asked for
OnUnauthorized(t) ==
    /\ log' = [log EXCEPT ![t] = Append(@, Ev("resp", "401", now))]
    /\ cache' = NoCache
    /\ pc' = [pc EXCEPT ![t] = "gat"]
    /\ ret' = [ret EXCEPT ![t] = "mr_401"]
    /\ UNCHANGED <<now, attempt, outcome>>

\* lines 178-190: a timeout, or any other RequestException; raise_for_status
\* (line 175) raises HTTPError, a RequestException, for every other status.
OnRequestException(t, kind) ==
    /\ UNCHANGED <<cache, ret>>
    /\ IF attempt[t] < RETRY_COUNT - 1
          THEN /\ log' = [log EXCEPT ![t] =
                            @ \o <<Ev("resp", kind, now), Ev("sleep", Pow2(attempt[t]), now)>>]
               /\ now' = now + Pow2(attempt[t])
               /\ Continue(t)
          ELSE /\ log' = [log EXCEPT ![t] = Append(@, Ev("resp", kind, now))]
               /\ pc' = [pc EXCEPT ![t] = "idle"]
               /\ outcome' = [outcome EXCEPT ![t] =
                                IF kind = "timeout" THEN "timeout" ELSE "request_failed"]
               /\ UNCHANGED <<now, attempt>>

\* the network injects one more failure
Fault ==
    /\ faults < MaxFaults
    /\ faults' = faults + 1

ReceiveResponse(t) ==
    /\ pc[t] = "await"
    /\ \/ OnSuccess(t) /\ UNCHANGED faults
       \/ /\ Fault
          /\ \/ \E header \in RetryAfterChoices : OnRateLimited(t, header)
             \/ OnUnauthorized(t)
             \/ \E kind \in {"timeout", "conn_error", "http_error"} :
                   OnRequestException(t, kind)
    /\ UNCHANGED <<issued, configured, token, calls>>

(***************************************************************************)
(* Time passes while no call is in progress.                               *)
(***************************************************************************)
Tick ==
    /\ \A t \in Callers : pc[t] = "idle"
    /\ \E d \in TickSteps :
         /\ now + d <= MaxTime
         /\ now' = now + d
    /\ UNCHANGED <<cache, issued, configured, pc, ret, token, attempt, calls, outcome, log, faults>>

(***************************************************************************)
(* __init__, lines 33-47: every service object reads the three credentials *)
(* from the environment when it is built, while the token cache outlives   *)
(* the object.  Between two calls the next object may find the environment *)
(* changed.                                                                *)
(***************************************************************************)
Reconfigure ==
    /\ \A t \in Callers : pc[t] = "idle"
    /\ configured' = ~configured
    /\ UNCHANGED <<now, cache, issued, pc, ret, token, attempt, calls, outcome, log, faults>>

(***************************************************************************)
(* SpecGraph: one caller, every response the Graph endpoint can give.      *)
(***************************************************************************)
NextGraph ==
    \/ \E t \in SeqCallers : CallGetAccessToken(t, MaxCalls)
    \/ \E t \in SeqCallers : CallMakeRequest(t, MaxCalls)
    \/ \E t \in SeqCallers : GetAccessTokenCheck(t)
    \/ \E t \in SeqCallers : GetAccessTokenPost(t)
    \/ \E t \in SeqCallers : SendRequest(t)
    \/ \E t \in SeqCallers : ReceiveResponse(t)
    \/ Tick
    \/ Reconfigure

SpecGraph == InitGraph /\ [][NextGraph /\ UNCHANGED rvars]_vars

(***************************************************************************)
(* SpecTokens: concurrent callers sharing the cache; the Graph endpoint    *)
(* answers with success or 401.                                            *)
(***************************************************************************)
ReceiveAuthResponse(t) ==
    /\ pc[t] = "await"
    /\ \/ OnSuccess(t) /\ UNCHANGED faults
       \/ Fault /\ OnUnauthorized(t)
    /\ UNCHANGED <<issued, configured, token, calls>>

NextTokens ==
    \/ \E t \in Callers : CallGetAccessToken(t, MaxConcCalls)
    \/ \E t \in Callers : CallMakeRequest(t, MaxConcCalls)
    \/ \E t \in Callers : GetAccessTokenCheck(t)
    \/ \E t \in Callers : GetAccessTokenPost(t)
    \/ \E t \in Callers : SendRequest(t)
    \/ \E t \in Callers : ReceiveAuthResponse(t)
    \/ Reconfigure

SpecTokens == InitGraph /\ [][NextTokens /\ UNCHANGED rvars]_vars

(***************************************************************************)
(* Graph message payloads: JSON objects, here functions from key to value. *)
(*   id                 a positive number; EmptyId is the empty string     *)
(*   from, recipients   [kind, address] entries, kind "dict" (an object    *)
(*                      {emailAddress: {address}}), "str" (a plain         *)
(*                      string), "null" (an object whose emailAddress is   *)
(*                      null) or "other"                                   *)
(*   body               [contentType, content]                            *)
(*   dates              ISO-8601 strings                                   *)
(***************************************************************************)
EmptyId == 0
None == "None"
NoBody == [contentType |-> "", content |-> ""]
NoFrom == [kind |-> "dict", address |-> ""]

Get(d, k, default) == IF k \in DOMAIN d THEN d[k] ELSE default

Truthy(d, k) == k \in DOMAIN d /\ d[k] # "" /\ d[k] # None

\* _parse_email_addresses, one recipient of the loop
AddressOf(recipient) ==
    IF recipient.kind = "dict"
       THEN (IF recipient.address # "" THEN <<recipient.address>> ELSE <<>>)
       ELSE IF recipient.kind = "str" THEN <<recipient.address>> ELSE <<>>

RECURSIVE _parse_email_addresses(_)
_parse_email_addresses(recipients) ==
    IF recipients = <<>>
       THEN <<>>
       ELSE AddressOf(Head(recipients)) \o _parse_email_addresses(Tail(recipients))

_parse_email_body(body) ==
    IF body = NoBody
       THEN [body_text |-> "", body_html |-> ""]
       ELSE IF body.contentType = "html"
               THEN [body_text |-> "", body_html |-> body.content]
               ELSE [body_text |-> body.content, body_html |-> ""]

\* datetime.fromisoformat(s.replace('Z', '+00:00')); None when it raises
ParseIso(s) ==
    CASE s = "2024-01-01T00:00:00Z" -> "2024-01-01T00:00:00+00:00"
      [] s = "2024-03-01T00:00:00Z" -> "2024-03-01T00:00:00+00:00"
      [] s = "2024-05-01T00:00:00Z" -> "2024-05-01T00:00:00+00:00"
      [] s = "2024-03-01T00:00:00+00:00" -> "2024-03-01T00:00:00+00:00"
      [] OTHER -> None

ParseDate(graph_email, k) ==
    IF Truthy(graph_email, k) THEN ParseIso(graph_email[k]) ELSE None

\* lines 97-102
FromEmail(graph_email) ==
    LET from_data == Get(graph_email, "from", NoFrom) IN
    IF from_data.kind = "dict"
       THEN (IF from_data.address # "" THEN from_data.address ELSE None)
       ELSE IF from_data.kind = "str" THEN from_data.address ELSE None

\* an exclusion list that names a key no attribute reads
MappedKeys_AndChangeKey ==
    {"id", "internetMessageId", "subject", "from", "toRecipients",
     "ccRecipients", "bccRecipients", "body", "bodyPreview",
     "receivedDateTime", "sentDateTime", "createdDateTime",
     "lastModifiedDateTime", "importance", "isRead",
     "isReadReceiptRequested", "conversationId", "conversationIndex",
     "categories", "flag", "hasAttachments", "webLink", "changeKey"}

\* lines 173-180: the keys left out of graph_metadata
MappedKeys ==
    {"id", "internetMessageId", "subject", "from", "toRecipients",
     "ccRecipients", "bccRecipients", "body", "bodyPreview",
     "receivedDateTime", "sentDateTime", "createdDateTime",
     "lastModifiedDateTime", "importance", "isRead",
     "isReadReceiptRequested", "conversationId", "conversationIndex",
     "categories", "flag", "hasAttachments", "webLink"}

\* an object whose emailAddress is null: .get('emailAddress', {}) is None
\* and the next .get raises AttributeError (lines 47 and 100)
RECURSIVE AnyNull(_)
AnyNull(recipients) ==
    recipients # <<>> /\ (Head(recipients).kind = "null" \/ AnyNull(Tail(recipients)))

ConvertRaises(graph_email) ==
    \/ AnyNull(Get(graph_email, "toRecipients", <<>>))
    \/ AnyNull(Get(graph_email, "ccRecipients", <<>>))
    \/ AnyNull(Get(graph_email, "bccRecipients", <<>>))
    \/ Get(graph_email, "from", NoFrom).kind = "null"

_convert_graph_email_to_model(graph_email, email_account) ==
    LET body == _parse_email_body(Get(graph_email, "body", NoBody)) IN
    [ email_account |-> email_account,
      graph_id |-> Get(graph_email, "id", EmptyId),
      internet_message_id |-> Get(graph_email, "internetMessageId", ""),
      subject |-> Get(graph_email, "subject", ""),
      from_email |-> FromEmail(graph_email),
      to_emails |-> _parse_email_addresses(Get(graph_email, "toRecipients", <<>>)),
      cc_emails |-> _parse_email_addresses(Get(graph_email, "ccRecipients", <<>>)),
      bcc_emails |-> _parse_email_addresses(Get(graph_email, "bccRecipients", <<>>)),
      body_text |-> body.body_text,
      body_html |-> body.body_html,
      body_preview |-> Get(graph_email, "bodyPreview", ""),
      date_received |-> ParseDate(graph_email, "receivedDateTime"),
      date_sent |-> ParseDate(graph_email, "sentDateTime"),
      created_date_time |-> ParseDate(graph_email, "createdDateTime"),
      last_modified_date_time |-> ParseDate(graph_email, "lastModifiedDateTime"),
      importance |-> Get(graph_email, "importance", "normal"),
      is_read |-> Get(graph_email, "isRead", FALSE),
      is_read_receipt_requested |-> Get(graph_email, "isReadReceiptRequested", FALSE),
      conversation_id |-> Get(graph_email, "conversationId", ""),
      conversation_index |-> Get(graph_email, "conversationIndex", ""),
      categories |-> Get(graph_email, "categories", <<>>),
      flag |-> Get(graph_email, "flag", <<>>),
      has_attachments |-> Get(graph_email, "hasAttachments", FALSE),
      web_link |-> Get(graph_email, "webLink", ""),
      graph_metadata |-> [k \in DOMAIN graph_email \ MappedKeys |-> graph_email[k]] ]

(***************************************************************************)
(* Bounds and inputs of the reader.                                        *)
(***************************************************************************)
MaxRuns == 2           \* handler invocations in one run of the model
MaxInjected == 1       \* failures injected into those handlers

GRAPH_MAX_TOP == 100
DEFAULT_TOP == 100
MAX_STORED_ERRORS == 3

Accounts == <<"a1@x", "a2@x", "a3@x">>      \* ordering = ['email']
AccountSet == {Accounts[i] : i \in 1..Len(Accounts)}
Workers == {"w1"}
DirectAccounts == {Accounts[1], Accounts[2]}    \* accounts fetched by name
FailAtChoices == {0, 1}     \* the message of a page whose transaction fails (0: none)
NoLimit == 0
LimitChoices == {NoLimit, 2}
\* since is None or a datetime: the instant it denotes and the offset of
\* its timezone from UTC, so that utc + utcoffset is its wall clock
NoSince == [given |-> FALSE, utc |-> 0, utcoffset |-> 0]
DateTime(utc, utcoffset) == [given |-> TRUE, utc |-> utc, utcoffset |-> utcoffset]
SinceChoices == {NoSince, DateTime(2, 0)}
Null == [isnull |-> TRUE, v |-> <<>>]
Text(errors) == [isnull |-> FALSE, v |-> errors]
Never == 0

\* the instant a receivedDateTime string denotes, for the endpoint's $filter
Instant(s) ==
    CASE s = "2024-01-01T00:00:00Z" -> 1
      [] s = "2024-03-01T00:00:00Z" -> 3
      [] s = "2024-05-01T00:00:00Z" -> 5
      [] OTHER -> 0

Msg(id, subject) ==
    [id |-> id, subject |-> subject, receivedDateTime |-> "2024-03-01T00:00:00Z",
     body |-> [contentType |-> "html", content |-> subject],
     from |-> [kind |-> "dict", address |-> "p@x"],
     toRecipients |-> <<[kind |-> "dict", address |-> "q@x"], [kind |-> "str", address |-> "r@x"]>>,
     changeKey |-> subject]

OldMsg(id) ==
    [id |-> id, subject |-> "old", receivedDateTime |-> "2024-01-01T00:00:00Z",
     body |-> [contentType |-> "text", content |-> "old"],
     parentFolderId |-> "inbox", isDraft |-> FALSE]

NoIdMsg == [subject |-> "noid", receivedDateTime |-> "2024-03-01T00:00:00Z"]

BadMsg(id) ==
    [id |-> id, subject |-> "bad", receivedDateTime |-> "2024-03-01T00:00:00Z",
     from |-> [kind |-> "null", address |-> ""]]

\* a mailbox is a short head of messages followed by `filler` plain ones
Filler(i) == Msg(1000 + i, "s1")

Messages(mb) == mb.head \o [i \in 1..mb.filler |-> Filler(i)]

Box(head, filler) == [head |-> head, filler |-> filler]

Mailboxes1 ==
    { Box(<<>>, 0),
      Box(<<Msg(1, "s1")>>, 0),
      Box(<<NoIdMsg, Msg(1, "s1"), Msg(2, "s1"), OldMsg(3)>>, 0),
      Box(<<Msg(1, "s1"), BadMsg(2), BadMsg(3), BadMsg(5)>>, 0) }

Mailbox2 == Box(<<Msg(1, "s1"), Msg(4, "s1")>>, 0)

Mailbox3 == Box(<<Msg(6, "s1")>>, 0)

ActiveChoices == {AccountSet, AccountSet \ {Accounts[2]}}

\* mailboxes and limits around the endpoint's page maximum
BigMailboxes == {Box(<<>>, 99), Box(<<>>, 100), Box(<<NoIdMsg>>, 100), Box(<<>>, 150)}
BigLimitChoices == {NoLimit, 100, 101, 150}

\* the endpoint edits its messages: a new subject, body and changeKey
Edited(m) ==
    IF "id" \in DOMAIN m /\ "changeKey" \in DOMAIN m /\ m.subject = "s1"
       THEN Msg(m.id, "s2") ELSE m

(***************************************************************************)
(* Graph endpoint: GET /users/{email}/messages with $top, $skip, $filter.  *)
(***************************************************************************)
NoFilter == [given |-> FALSE, z |-> 0]

\* receivedDateTime gt <z>
Matches(m, filter) == ~filter.given \/ Instant(Get(m, "receivedDateTime", "")) > filter.z

ListMessages(mb, top, skip, filter) ==
    LET all == SelectSeq(Messages(mb), LAMBDA m : Matches(m, filter))
        last == Min(Len(all), skip + top)
    IN  IF skip >= Len(all) THEN <<>> ELSE SubSeq(all, skip + 1, last)

(***************************************************************************)
(* Email table and update_or_create(graph_id, email_account, defaults).    *)
(***************************************************************************)
Rows(table, graph_id, email_account) ==
    {r \in table : r.graph_id = graph_id /\ r.email_account = email_account}

\* graph_id is unique=True: an INSERT of a graph_id another row holds fails
UniqueViolation(table, graph_id) == \E r \in table : r.graph_id = graph_id

NewRow(pk, defaults, t) ==
    [ pk |-> pk, attachments |-> <<>>, is_processed |-> FALSE, processed_at |-> None,
      created_at |-> t, updated_at |-> t ] @@ defaults

\* an update that writes the row anew, as a first fetch would
UpdatedRow_Reset(r, defaults, t) ==
    [NewRow(r.pk, defaults, t) EXCEPT !.created_at = r.created_at]

\* an update that leaves the stored fields as they were
UpdatedRow_KeepOld(r, defaults, t) == [r EXCEPT !.updated_at = t]

UpdatedRow(r, defaults, t) ==
    [k \in DOMAIN r |->
        IF k \in DOMAIN defaults THEN defaults[k]
        ELSE IF k = "updated_at" THEN t ELSE r[k]]

ErrProcessing(graph_id) == [kind |-> "Error processing message", id |-> graph_id]
ErrFetching == [kind |-> "Error fetching messages", id |-> EmptyId]
ErrFailed == [kind |-> "Failed to fetch emails", id |-> EmptyId]

(***************************************************************************)
(* fetch_emails_for_account, lines 248-278: one message of a page.  st     *)
(* holds the table, the result and the counters; dbfails says whether the  *)
(* database fails this message's transaction.                              *)
(***************************************************************************)
\* no check of the id at all
MissingId_Never(message_data) == FALSE

\* lines 252-253: graph_id = message_data.get('id'); if not graph_id
MissingId(message_data) == Get(message_data, "id", EmptyId) = EmptyId

\* a handler that gives the whole fetch up for one message
OnMessageError_Abort(st, graph_id, why) ==
    [st EXCEPT !.result.errors = Append(@, ErrProcessing(graph_id)),
               !.result.success = FALSE,
               !.trace = Append(@, [id |-> graph_id, did |-> "failed", why |-> why])]

\* lines 274-278: the block is rolled back, the error is collected, continue
OnMessageError(st, graph_id, why) ==
    [st EXCEPT !.result.errors = Append(@, ErrProcessing(graph_id)),
               !.trace = Append(@, [id |-> graph_id, did |-> "failed", why |-> why])]

ProcessMessage(st, message_data, email_account, dbfails, t) ==
    LET graph_id == Get(message_data, "id", EmptyId) IN
    IF MissingId(message_data)
       THEN [st EXCEPT !.trace = Append(@, [id |-> EmptyId, did |-> "skipped", why |-> ""])]
       ELSE
         LET found == Rows(st.emails, graph_id, email_account) IN
         IF \/ ConvertRaises(message_data)
            \/ dbfails
            \/ (found = {} /\ UniqueViolation(st.emails, graph_id))
            THEN OnMessageError(st, graph_id,
                                IF ConvertRaises(message_data) THEN "convert"
                                ELSE IF dbfails THEN "db" ELSE "unique")
            ELSE
              LET defaults == _convert_graph_email_to_model(message_data, email_account) IN
              IF found = {}
                 THEN [st EXCEPT
                         !.emails = @ \cup {NewRow(st.nextPk, defaults, t)},
                         !.nextPk = @ + 1,
                         !.result.new_count = @ + 1,
                         !.result.count = @ + 1,
                         !.total_fetched = @ + 1,
                         !.trace = Append(@, [id |-> graph_id, did |-> "created", why |-> ""])]
                 ELSE [st EXCEPT
                         !.emails = (@ \ found) \cup {UpdatedRow(r, defaults, t) : r \in found},
                         !.result.updated_count = @ + 1,
                         !.result.count = @ + 1,
                         !.total_fetched = @ + 1,
                         !.trace = Append(@, [id |-> graph_id, did |-> "updated", why |-> ""])]

\* the for loop of line 248 over messages[lo..hi], in order
RECURSIVE ProcessMessages(_, _, _, _, _, _, _)
ProcessMessages(st, messages, lo, hi, email_account, failAt, t) ==
    IF lo > hi
       THEN st
       ELSE IF lo = hi
               THEN ProcessMessage(st, messages[lo], email_account, lo = failAt, t)
               ELSE CHOOSE last \in
                      UNION { { ProcessMessages(first, messages, mid + 1, hi,
                                                email_account, failAt, t) :
                                  first \in {ProcessMessages(st, messages, lo, mid,
                                                             email_account, failAt, t)} } :
                              mid \in {(lo + hi) \div 2} } : TRUE

(***************************************************************************)
(* State of the reader.                                                    *)
(***************************************************************************)
IdleRun ==
    [ pc |-> "idle", caller |-> "none", inst |-> <<>>, top |-> 0, skip |-> 0,
      total_fetched |-> 0, result |-> <<>>, requests |-> 0, pages |-> <<>>,
      page |-> <<>>, trace |-> <<>>, saves_failed |-> 0,
      snapshot |-> Box(<<>>, 0) ]    \* the mailbox as it was when the call began

IdleFleet == [pc |-> "idle", queue |-> <<>>, results |-> <<>>, invoked |-> <<>>]

NoRequest == [endpoint |-> "none", raw_limit |-> "", raw_since |-> "", rejected |-> FALSE]

\* EmailAccount.objects.get / filter: the row as a model instance
Instance(a) == [email |-> a] @@ account[a]

InitIdleFor(workers) ==
    /\ now = 1
    /\ cache = NoCache
    /\ issued = <<>>
    /\ configured = TRUE
    /\ pc = [t \in Callers |-> "idle"]
    /\ ret = [t \in Callers |-> "caller"]
    /\ token = [t \in Callers |-> NoToken]
    /\ attempt = [t \in Callers |-> 0]
    /\ calls = [t \in Callers |-> 0]
    /\ outcome = [t \in Callers |-> "none"]
    /\ log = [t \in Callers |-> <<>>]
    /\ faults = 0
    /\ emails = {}
    /\ nextPk = 1
    /\ run = [w \in workers |-> IdleRun]
    /\ fleet = [w \in workers |-> IdleFleet]
    /\ runs = 0
    /\ http = [w \in workers |-> NoRequest]
    /\ crashes = 0

InitIdle == InitIdleFor(Workers)

Init ==
    /\ InitIdle
    /\ \E active \in ActiveChoices :
         account = [a \in AccountSet |->
                      [is_active |-> a \in active, last_synced |-> Never, sync_error |-> Null]]
    /\ \E m1 \in Mailboxes1 :
         mailbox = [a \in AccountSet |->
                      IF a = Accounts[1] THEN m1
                      ELSE IF a = Accounts[2] THEN Mailbox2 ELSE Mailbox3]
    /\ limit \in LimitChoices
    /\ since \in SinceChoices

(***************************************************************************)
(* fetch_emails_for_account, lines 203-232: the inactive account returns   *)
(* at once, the active one starts paging at offset 0.                      *)
(***************************************************************************)
\* a filter that carries the instant of since
FilterQuery_Utc(snc) ==
    IF snc.given THEN [given |-> TRUE, z |-> snc.utc] ELSE NoFilter

\* lines 223-227: strftime('%Y-%m-%dT%H:%M:%SZ') writes the wall clock of
\* since and the letter Z, whatever the datetime's offset
FilterQuery(snc) ==
    IF snc.given THEN [given |-> TRUE, z |-> snc.utc + snc.utcoffset] ELSE NoFilter

\* a stop test that takes a full page for the last one
StopPaging_AtFullPage(n, top, total_fetched, lim) ==
    n <= top \/ (lim # 0 /\ total_fetched >= lim)

\* line 281: len(messages) < top or (limit and total_fetched >= limit)
StopPaging(n, top, total_fetched, lim) ==
    n < top \/ (lim # 0 /\ total_fetched >= lim)

BeginFetchWith(email_account, caller, lim) ==
    IF ~email_account.is_active
       THEN [IdleRun EXCEPT
               !.pc = "returned", !.caller = caller, !.inst = email_account,
               !.result = [success |-> FALSE, error |-> "Email account is not active",
                           count |-> 0]]
       ELSE [IdleRun EXCEPT
               !.pc = "paging", !.caller = caller, !.inst = email_account,
               !.result = [success |-> TRUE, count |-> 0, new_count |-> 0,
                           updated_count |-> 0, errors |-> <<>>],
               !.top = IF lim # 0 THEN lim ELSE DEFAULT_TOP,
               !.skip = 0,
               !.total_fetched = 0,
               !.snapshot = mailbox[email_account.email]]

BeginFetch(email_account, caller) == BeginFetchWith(email_account, caller, limit)

\* views.fetch_account / the fetch_emails command with --email
CallFetchAccount(w, a) ==
    /\ runs < MaxRuns
    /\ run[w].pc = "idle" /\ fleet[w].pc = "idle"
    /\ runs' = runs + 1
    /\ run' = [run EXCEPT ![w] = BeginFetch(Instance(a), "direct")]
    /\ UNCHANGED <<gvars, account, emails, nextPk, mailbox, limit, since, http, crashes, fleet>>

(***************************************************************************)
(* fetch_emails_for_account, lines 234-291: one turn of the while loop.    *)
(* get_user_messages either raises (the page is lost, pagination ends) or  *)
(* answers with a page whose messages are processed one by one.  The       *)
(* endpoint answers a $top below 1 with 400, which ends in the same raise. *)
(***************************************************************************)
\* an error handler that logs the error and goes on with the loop
OnFetchError_KeepGoing(r, asked) ==
    [r EXCEPT !.result.errors = Append(@, ErrFetching),
              !.result.success = FALSE,
              !.requests = @ + 1,
              !.pages = Append(@, [skip |-> r.skip, top |-> asked, got |-> -1, failAt |-> 0]),
              !.page = <<>>, !.trace = <<>>,
              !.pc = "paging"]

\* an error handler that fails the result without saying why
OnFetchError_Silent(r, asked) ==
    [r EXCEPT !.result.success = FALSE,
              !.requests = @ + 1,
              !.pages = Append(@, [skip |-> r.skip, top |-> asked, got |-> -1, failAt |-> 0]),
              !.page = <<>>, !.trace = <<>>,
              !.pc = "status"]

\* lines 286-291: the error is collected, the result is failed, break
OnFetchError(r, asked) ==
    [r EXCEPT !.result.errors = Append(@, ErrFetching),
              !.result.success = FALSE,
              !.requests = @ + 1,
              !.pages = Append(@, [skip |-> r.skip, top |-> asked, got |-> -1, failAt |-> 0]),
              !.page = <<>>, !.trace = <<>>,
              !.pc = "status"]

FetchPage(w) ==
    LET r == run[w]
        asked == Min(r.top, GRAPH_MAX_TOP)
    IN
    /\ r.pc = "paging"
    /\ now' = now + 1
    /\ \/ /\ asked < 1 \/ faults < MaxInjected
          /\ faults' = IF asked < 1 THEN faults ELSE faults + 1
          /\ run' = [run EXCEPT ![w] = OnFetchError(r, asked)]
          /\ UNCHANGED <<emails, nextPk>>
       \/ \E failAt \in FailAtChoices,
             messages \in {ListMessages(mailbox[r.inst.email], asked, r.skip,
                                        FilterQuery(since))} :
          \E st \in {ProcessMessages([emails |-> emails, nextPk |-> nextPk,
                                      result |-> r.result,
                                      total_fetched |-> r.total_fetched, trace |-> <<>>],
                                     messages, 1, Len(messages), r.inst.email, failAt, now)} :
            LET more == ~StopPaging(Len(messages), r.top, st.total_fetched, limit)
                seen == [r EXCEPT !.requests = @ + 1,
                                  !.pages = Append(@, [skip |-> r.skip, top |-> asked,
                                                       got |-> Len(messages),
                                                       failAt |-> failAt]),
                                  !.page = messages]
            IN
            /\ asked >= 1
            /\ failAt > 0 => faults < MaxInjected /\ messages # <<>>
            /\ faults' = IF failAt > 0 THEN faults + 1 ELSE faults
            /\ IF messages = <<>>
                  THEN /\ run' = [run EXCEPT ![w] = [seen EXCEPT !.trace = <<>>, !.pc = "status"]]
                       /\ UNCHANGED <<emails, nextPk>>
                  ELSE /\ emails' = st.emails
                       /\ nextPk' = st.nextPk
                       /\ run' = [run EXCEPT ![w] =
                                    [seen EXCEPT !.result = st.result,
                                                 !.total_fetched = st.total_fetched,
                                                 !.trace = st.trace,
                                                 !.skip = IF more THEN @ + Len(messages) ELSE @,
                                                 !.pc = IF more THEN "paging" ELSE "status"]]
    /\ UNCHANGED <<cache, issued, configured, pc, ret, token, attempt, calls, outcome, log,
                   account, mailbox, limit, since, http, crashes, fleet, runs>>

(***************************************************************************)
(* fetch_emails_for_account, lines 293-318: the sync status is written     *)
(* from the in-memory account and the result is returned.                  *)
(***************************************************************************)
FirstErrors(errors) == SubSeq(errors, 1, Min(Len(errors), MAX_STORED_ERRORS))

\* the status is set as after a successful fetch, whatever the result
SyncStatus_AlwaysSynced(inst, result, t) ==
    [inst EXCEPT !.last_synced = t,
                 !.sync_error = IF result.success THEN Null
                                ELSE Text(FirstErrors(result.errors))]

\* lines 294-298: the in-memory account after the status assignment
SyncStatus(inst, result, t) ==
    IF result.success
       THEN [inst EXCEPT !.last_synced = t, !.sync_error = Null]
       ELSE [inst EXCEPT !.sync_error = Text(FirstErrors(result.errors))]

\* line 300: save(update_fields=['last_synced', 'sync_error'])
SaveSyncStatus(table, inst) ==
    [table EXCEPT ![inst.email].last_synced = inst.last_synced,
                  ![inst.email].sync_error = inst.sync_error]

\* a handler that returns without saving the error
SaveSyncError_Skip(table, inst) == table

\* line 316: save(update_fields=['sync_error'])
SaveSyncError(table, inst) ==
    [table EXCEPT ![inst.email].sync_error = inst.sync_error]

\* The database accepts the save of line 300, or it fails it: the handler
\* of lines 308-316 marks the result failed and saves the error, and when
\* that save fails too its exception leaves fetch_emails_for_account.
UpdateSyncStatus(w) ==
    LET r == run[w]
        inst == SyncStatus(r.inst, r.result, now)
        failed == [r.result EXCEPT !.success = FALSE, !.errors = Append(@, ErrFailed)]
        inst_err == [inst EXCEPT !.sync_error = Text(<<ErrFailed>>)]
    IN
    /\ r.pc = "status"
    /\ \/ /\ account' = SaveSyncStatus(account, inst)
          /\ run' = [run EXCEPT ![w] = [r EXCEPT !.inst = inst, !.pc = "returned"]]
          /\ UNCHANGED faults
       \/ /\ faults < MaxInjected
          /\ faults' = faults + 1
          /\ \/ /\ account' = SaveSyncError(account, inst_err)
                /\ run' = [run EXCEPT ![w] =
                             [r EXCEPT !.inst = inst_err, !.result = failed,
                                       !.saves_failed = 1, !.pc = "returned"]]
             \/ /\ run' = [run EXCEPT ![w] =
                             [r EXCEPT !.inst = inst_err, !.result = failed,
                                       !.saves_failed = 2, !.pc = "raised"]]
                /\ UNCHANGED account
    /\ UNCHANGED <<now, cache, issued, configured, pc, ret, token, attempt, calls, outcome, log,
                   emails, nextPk, mailbox, limit, since, http, crashes, fleet, runs>>

\* the direct caller has its result, or the exception (views.py line 330
\* answers it with a 500); the handler is over
Respond(w) ==
    /\ run[w].pc \in {"returned", "raised"} /\ run[w].caller = "direct"
    /\ run' = [run EXCEPT ![w] = IdleRun]
    /\ UNCHANGED <<gvars, account, emails, nextPk, mailbox, limit, since, http, crashes, fleet, runs>>

(***************************************************************************)
(* fetch_all_active_accounts.                                              *)
(***************************************************************************)
ActiveAccounts == SelectSeq(Accounts, LAMBDA a : account[a].is_active)

\* lines 335-345
BeginFetchAll ==
    LET active_accounts == [i \in 1..Len(ActiveAccounts) |-> Instance(ActiveAccounts[i])] IN
    [ pc |-> IF active_accounts = <<>> THEN "returned" ELSE "loop",
      queue |-> active_accounts,
      invoked |-> <<>>,
      results |-> [ total_accounts |-> Len(active_accounts),
                    successful_accounts |-> 0,
                    failed_accounts |-> 0,
                    total_emails |-> 0,
                    account_results |-> <<>> ] ]

CallFetchAll(w) ==
    /\ runs < MaxRuns
    /\ run[w].pc = "idle" /\ fleet[w].pc = "idle"
    /\ runs' = runs + 1
    /\ fleet' = [fleet EXCEPT ![w] = BeginFetchAll]
    /\ UNCHANGED <<gvars, account, emails, nextPk, mailbox, limit, since, http, crashes, run>>

\* lines 347-352: the next account of the loop
FleetFetchNext(w) ==
    /\ fleet[w].pc = "loop" /\ run[w].pc = "idle"
    /\ run' = [run EXCEPT ![w] = BeginFetch(Head(fleet[w].queue), "fleet")]
    /\ fleet' = [fleet EXCEPT ![w].invoked = Append(@, Head(fleet[w].queue).email)]
    /\ UNCHANGED <<gvars, account, emails, nextPk, mailbox, limit, since, http, crashes, runs>>

\* a loop that gives up after an account whose fetch failed
LoopDone_StopOnFailure(queue, account_result) ==
    Tail(queue) = <<>> \/ ~account_result.success

\* line 347: the for loop ends with the last account of the queryset
LoopDone(queue, account_result) == Tail(queue) = <<>>

\* lines 354-361, and line 370 after the last account
FleetCollect(w) ==
    LET f == fleet[w]
        account_result == run[w].result
        key == Head(f.queue).email
    IN
    /\ f.pc = "loop" /\ run[w].pc = "returned" /\ run[w].caller = "fleet"
    /\ fleet' = [fleet EXCEPT ![w] =
                   [f EXCEPT
                      !.queue = Tail(@),
                      !.pc = IF LoopDone(f.queue, account_result) THEN "returned" ELSE "loop",
                      !.results.account_results =
                          [k \in DOMAIN @ \cup {key} |-> IF k = key THEN account_result ELSE @[k]],
                      !.results.successful_accounts =
                          IF account_result.success THEN @ + 1 ELSE @,
                      !.results.failed_accounts =
                          IF account_result.success THEN @ ELSE @ + 1,
                      !.results.total_emails = @ + account_result.count]]
    /\ run' = [run EXCEPT ![w] = IdleRun]
    /\ UNCHANGED <<gvars, account, emails, nextPk, mailbox, limit, since, http, crashes, runs>>

\* lines 348-352 have no try: an exception of fetch_emails_for_account
\* ends the loop and leaves fetch_all_active_accounts
FleetPropagate(w) ==
    /\ fleet[w].pc = "loop" /\ run[w].pc = "raised" /\ run[w].caller = "fleet"
    /\ fleet' = [fleet EXCEPT ![w].pc = "raised"]
    /\ run' = [run EXCEPT ![w] = IdleRun]
    /\ UNCHANGED <<gvars, account, emails, nextPk, mailbox, limit, since, http, crashes, runs>>

FleetRespond(w) ==
    /\ fleet[w].pc \in {"returned", "raised"}
    /\ fleet' = [fleet EXCEPT ![w] = IdleFleet]
    /\ UNCHANGED <<gvars, account, emails, nextPk, mailbox, limit, since, http, crashes, run, runs>>

(***************************************************************************)
(* The mailbox owner's messages change between two fetches.                *)
(***************************************************************************)
EditMailbox ==
    /\ \A w \in Workers : run[w].pc = "idle" /\ fleet[w].pc = "idle"
    /\ runs > 0
    /\ \E a \in {Accounts[1]} :
         LET mb == mailbox[a]
             edited == [i \in 1..Len(mb.head) |-> Edited(mb.head[i])]
         IN  /\ edited # mb.head
             /\ mailbox' = [mailbox EXCEPT ![a].head = edited]
    /\ UNCHANGED <<gvars, account, emails, nextPk, limit, since, http, crashes, run, fleet, runs>>

Next ==
    \/ \E w \in Workers, a \in DirectAccounts : CallFetchAccount(w, a)
    \/ \E w \in Workers : FetchPage(w)
    \/ \E w \in Workers : UpdateSyncStatus(w)
    \/ \E w \in Workers : Respond(w)
    \/ \E w \in Workers : CallFetchAll(w)
    \/ \E w \in Workers : FleetFetchNext(w)
    \/ \E w \in Workers : FleetCollect(w)
    \/ \E w \in Workers : FleetPropagate(w)
    \/ \E w \in Workers : FleetRespond(w)
    \/ EditMailbox

Spec == Init /\ [][Next]_vars

(***************************************************************************)
(* SpecPaging: one account fetched by name, with mailboxes and limits      *)
(* around the endpoint's page maximum of 100.                              *)
(***************************************************************************)
InitPaging ==
    /\ InitIdle
    /\ account = [a \in AccountSet |->
                    [is_active |-> TRUE, last_synced |-> Never, sync_error |-> Null]]
    /\ \E m1 \in BigMailboxes :
         mailbox = [a \in AccountSet |-> IF a = Accounts[1] THEN m1 ELSE Box(<<>>, 0)]
    /\ limit \in BigLimitChoices
    /\ since = NoSince

NextPaging ==
    \/ \E w \in Workers : CallFetchAccount(w, Accounts[1])
    \/ \E w \in Workers : FetchPage(w)
    \/ \E w \in Workers : UpdateSyncStatus(w)
    \/ \E w \in Workers : Respond(w)

SpecPaging == InitPaging /\ [][NextPaging]_vars

(***************************************************************************)
(* The worker process dies while fetch_emails_for_account handles a page   *)
(* (lines 248-278): the first j messages of the page went through their    *)
(* own transaction.atomic block, the next one, if any, was inside its      *)
(* block, which the database rolls back.  Nothing of the call survives     *)
(* but the committed rows.                                                 *)
(***************************************************************************)
MaxCrashes == 1        \* process deaths in one run of the model

\* the row of the message in flight as its INSERT left it, had the block
\* not been atomic: the key columns without the rest
TornRow(st, message_data, email_account, t) ==
    NewRow(st.nextPk, _convert_graph_email_to_model([id |-> message_data.id], email_account), t)

\* the table keeps what the interrupted block had written
Committed_Torn(st, messages, j, email_account, t) ==
    IF /\ j < Len(messages)
       /\ ~MissingId(messages[j + 1])
       /\ Rows(st.emails, messages[j + 1].id, email_account) = {}
       THEN st.emails \cup {TornRow(st, messages[j + 1], email_account, t)}
       ELSE st.emails

\* line 250: the interrupted block is rolled back as a whole
Committed(st, messages, j, email_account, t) == st.emails

Crash(w) ==
    LET r == run[w]
        asked == Min(r.top, GRAPH_MAX_TOP)
        messages == ListMessages(mailbox[r.inst.email], asked, r.skip, FilterQuery(since))
        st0 == [emails |-> emails, nextPk |-> nextPk, result |-> r.result,
                total_fetched |-> r.total_fetched, trace |-> <<>>]
    IN
    /\ r.pc = "paging"
    /\ asked >= 1
    /\ crashes < MaxCrashes
    /\ crashes' = crashes + 1
    /\ \E j \in 0..Len(messages) :
         LET st == ProcessMessages(st0, messages, 1, j, r.inst.email, 0, now) IN
         /\ emails' = Committed(st, messages, j, r.inst.email, now)
         /\ nextPk' = st.nextPk
    /\ run' = [run EXCEPT ![w] = IdleRun]
    /\ fleet' = [fleet EXCEPT ![w] = IdleFleet]
    /\ now' = now + 1
    /\ UNCHANGED <<cache, issued, configured, pc, ret, token, attempt, calls, outcome, log,
                   faults, account, mailbox, limit, since, runs, http>>

(***************************************************************************)
(* SpecCrash: one account fetched by name by a worker that may die and be  *)
(* started again; the mailbox keeps its contents.                          *)
(***************************************************************************)
InitCrash ==
    /\ InitIdle
    /\ account = [a \in AccountSet |->
                    [is_active |-> TRUE, last_synced |-> Never, sync_error |-> Null]]
    /\ \E m1 \in Mailboxes1 :
         mailbox = [a \in AccountSet |-> IF a = Accounts[1] THEN m1 ELSE Box(<<>>, 0)]
    /\ limit \in LimitChoices
    /\ since \in SinceChoices

NextCrash ==
    \/ \E w \in Workers : CallFetchAccount(w, Accounts[1])
    \/ \E w \in Workers : FetchPage(w)
    \/ \E w \in Workers : Crash(w)
    \/ \E w \in Workers : UpdateSyncStatus(w)
    \/ \E w \in Workers : Respond(w)

SpecCrash == InitCrash /\ [][NextCrash]_vars

(***************************************************************************)
(* The fields of a stored email that the reader does not produce are set   *)
(* elsewhere: the admin form of Email (admin.py, fieldsets "Attachments"   *)
(* and "Processing") edits attachments, is_processed and processed_at.     *)
(***************************************************************************)
ProcessedAt == "2024-05-01T00:00:00+00:00"
SomeAttachments == <<[name |-> "f.pdf", size |-> 1]>>

MarkProcessed ==
    /\ \E r \in emails :
         /\ ~r.is_processed
         /\ emails' = (emails \ {r}) \cup
                        {[r EXCEPT !.is_processed = TRUE, !.processed_at = ProcessedAt,
                                   !.attachments = SomeAttachments, !.updated_at = now]}
    /\ UNCHANGED <<gvars, account, nextPk, mailbox, limit, since, http, crashes, run, fleet, runs>>

(***************************************************************************)
(* SpecProcess: one account fetched by name again and again while its      *)
(* messages are edited in the mailbox and its stored emails are marked     *)
(* processed.                                                              *)
(***************************************************************************)
InitProcess ==
    /\ InitIdle
    /\ account = [a \in AccountSet |->
                    [is_active |-> TRUE, last_synced |-> Never, sync_error |-> Null]]
    /\ \E m1 \in {Box(<<Msg(1, "s1"), Msg(2, "s1")>>, 0), Box(<<Msg(1, "s1"), OldMsg(3)>>, 0)} :
         mailbox = [a \in AccountSet |-> IF a = Accounts[1] THEN m1 ELSE Box(<<>>, 0)]
    /\ limit \in LimitChoices
    /\ since = NoSince

NextProcess ==
    \/ \E w \in Workers : CallFetchAccount(w, Accounts[1])
    \/ \E w \in Workers : FetchPage(w)
    \/ \E w \in Workers : UpdateSyncStatus(w)
    \/ \E w \in Workers : Respond(w)
    \/ EditMailbox
    \/ MarkProcessed

SpecProcess == InitProcess /\ [][NextProcess]_vars

(***************************************************************************)
(* SpecRace: two worker processes serve fetch requests for the same        *)
(* account at the same time.  Each loads its own EmailAccount instance     *)
(* when its request arrives (views.py line 285) and saves it at the end.   *)
(***************************************************************************)
RaceWorkers == {"w1", "w2"}

InitRace ==
    /\ InitIdleFor(RaceWorkers)
    /\ account = [a \in AccountSet |->
                    [is_active |-> TRUE, last_synced |-> Never, sync_error |-> Null]]
    /\ mailbox = [a \in AccountSet |->
                    IF a = Accounts[1] THEN Box(<<Msg(1, "s1")>>, 0) ELSE Box(<<>>, 0)]
    /\ limit \in LimitChoices
    /\ since = NoSince

NextRace ==
    \/ \E w \in RaceWorkers : CallFetchAccount(w, Accounts[1])
    \/ \E w \in RaceWorkers : FetchPage(w)
    \/ \E w \in RaceWorkers : UpdateSyncStatus(w)
    \/ \E w \in RaceWorkers : Respond(w)

SpecRace == InitRace /\ [][NextRace]_vars

(***************************************************************************)
(* Mail is delivered while a fetch is going on.  The endpoint lists a      *)
(* mailbox by receivedDateTime desc (get_user_messages, line 200), so a    *)
(* message just received is the first of the list and moves every other    *)
(* message one place down.                                                 *)
(***************************************************************************)
MaxArrivals == 2       \* messages delivered in one run of the model

NewMsg(id) ==
    [id |-> id, subject |-> "new", receivedDateTime |-> "2024-05-01T00:00:00Z",
     body |-> [contentType |-> "text", content |-> "new"]]

Arrived(mb) == {i \in 1..Len(mb.head) : mb.head[i].subject = "new"}

Arrive ==
    /\ \E a \in {Accounts[1]} :
         /\ Cardinality(Arrived(mailbox[a])) < MaxArrivals
         /\ mailbox' = [mailbox EXCEPT
                          ![a].head = <<NewMsg(500 + Cardinality(Arrived(mailbox[a])))>> \o @]
    /\ UNCHANGED <<gvars, account, emails, nextPk, limit, since, http, crashes, run, fleet, runs>>

(***************************************************************************)
(* SpecArrivals: one call of fetch_emails_for_account, without a limit,    *)
(* on mailboxes of about one page and more, while mail arrives.  The loop  *)
(* of the call runs to its end once started: the call is synchronous and   *)
(* nothing cancels it.                                                     *)
(***************************************************************************)
ArrivalMailboxes ==
    { Box(<<>>, 99), Box(<<Msg(1, "s1")>>, 100),
      Box(<<NoIdMsg, Msg(1, "s1"), Msg(2, "s1"), OldMsg(3)>>, 0) }

\* no since, a since in UTC, and a since in a timezone ahead of UTC
ArrivalSinceChoices == {NoSince, DateTime(2, 0), DateTime(2, 2)}

InitArrivals ==
    /\ InitIdle
    /\ account = [a \in AccountSet |->
                    [is_active |-> TRUE, last_synced |-> Never, sync_error |-> Null]]
    /\ \E m1 \in ArrivalMailboxes :
         mailbox = [a \in AccountSet |-> IF a = Accounts[1] THEN m1 ELSE Box(<<>>, 0)]
    /\ limit = NoLimit
    /\ since \in ArrivalSinceChoices

NextArrivals ==
    \/ \E w \in Workers : CallFetchAccount(w, Accounts[1])
    \/ \E w \in Workers : FetchPage(w)
    \/ \E w \in Workers : UpdateSyncStatus(w)
    \/ Arrive

SpecArrivals ==
    /\ InitArrivals
    /\ [][NextArrivals]_vars
    /\ \A w \in Workers : WF_vars(FetchPage(w)) /\ WF_vars(UpdateSyncStatus(w))

(***************************************************************************)
(* The HTTP triggers, views.py: fetch_all (lines 195-240) and              *)
(* fetch_account (lines 272-338) read limit and since from the query       *)
(* string, answer 400 when int() or fromisoformat() raises ValueError and  *)
(* call the reader otherwise.                                              *)
(***************************************************************************)
RawLimitChoices == {"", "2", "0", "-1", "abc"}
RawSinceChoices == {"", "2024-01-01T00:00:00Z", "yesterday"}
Endpoints == {"fetch_all", "fetch_account"}

\* int(limit): the number, or ValueError
ParseInt(raw) ==
    CASE raw = "2" -> [ok |-> TRUE, v |-> 2]
      [] raw = "0" -> [ok |-> TRUE, v |-> 0]
      [] raw = "-1" -> [ok |-> TRUE, v |-> -1]
      [] OTHER -> [ok |-> FALSE, v |-> 0]

\* lines 201 and 298: limit = int(limit) if limit else None
ParseLimit(raw) == IF raw # "" THEN ParseInt(raw) ELSE [ok |-> TRUE, v |-> NoLimit]

\* lines 202-213 and 299-310
ParseSince(raw) ==
    IF raw # ""
       THEN [ok |-> ParseIso(raw) # None, v |-> DateTime(Instant(raw), 0)]
       ELSE [ok |-> TRUE, v |-> NoSince]

HandleFetchRequest(w, endpoint, a, raw_limit, raw_since) ==
    LET lim == ParseLimit(raw_limit)
        snc == ParseSince(raw_since)
        accepted == lim.ok /\ snc.ok
    IN
    /\ runs < MaxRuns
    /\ run[w].pc = "idle" /\ fleet[w].pc = "idle"
    /\ runs' = runs + 1
    /\ http' = [http EXCEPT ![w] = [endpoint |-> endpoint, raw_limit |-> raw_limit,
                                    raw_since |-> raw_since, rejected |-> ~accepted]]
    /\ IF ~accepted
          THEN UNCHANGED <<limit, since, run, fleet>>
          ELSE /\ limit' = lim.v
               /\ since' = snc.v
               /\ IF endpoint = "fetch_account"
                     THEN /\ run' = [run EXCEPT ![w] =
                                       BeginFetchWith(Instance(a), "direct", lim.v)]
                          /\ UNCHANGED fleet
                     ELSE /\ fleet' = [fleet EXCEPT ![w] = BeginFetchAll]
                          /\ UNCHANGED run
    /\ UNCHANGED <<gvars, account, emails, nextPk, mailbox, crashes>>

(***************************************************************************)
(* SpecViews: the reader behind its two HTTP triggers.                     *)
(***************************************************************************)
InitViews ==
    /\ InitIdle
    /\ account = [a \in AccountSet |->
                    [is_active |-> a # Accounts[2], last_synced |-> Never, sync_error |-> Null]]
    /\ mailbox = [a \in AccountSet |->
                    IF a = Accounts[1] THEN Box(<<Msg(1, "s1"), OldMsg(3)>>, 0) ELSE Mailbox3]
    /\ limit = NoLimit
    /\ since = NoSince

NextViews ==
    \/ \E w \in Workers, endpoint \in Endpoints, raw_limit \in RawLimitChoices,
          raw_since \in RawSinceChoices :
          HandleFetchRequest(w, endpoint, Accounts[1], raw_limit, raw_since)
    \/ \E w \in Workers : FetchPage(w)
    \/ \E w \in Workers : UpdateSyncStatus(w)
    \/ \E w \in Workers : Respond(w)
    \/ \E w \in Workers : FleetFetchNext(w)
    \/ \E w \in Workers : FleetCollect(w)
    \/ \E w \in Workers : FleetPropagate(w)
    \/ \E w \in Workers : FleetRespond(w)

SpecViews == InitViews /\ [][NextViews]_vars

(***************************************************************************)
(* Reading a caller's event log.                                           *)
(*   <<"cached", tok, at>>    get_access_token answered from the cache     *)
(*   <<"exchange", tok, at>>  get_access_token answered by a token exchange*)
(*   <<"send", tok, at>>      a Graph request left with bearer token tok   *)
(*   <<"resp", kind, at>>     its answer; <<"resp429", header, at>> for 429*)
(*   <<"sleep", seconds, at>> time.sleep                                   *)
(***************************************************************************)
At(t, kind) == {i \in 1..Len(log[t]) : log[t][i].ev = kind}

Resp(t, kind) == {i \in At(t, "resp") : log[t][i].a = kind}

After(t, i, kinds) == {j \in 1..Len(log[t]) : j > i /\ log[t][j].ev \in kinds}

Expiry(tok) == issued[tok].at + issued[tok].expires_in

(***************************************************************************)
(* C2: within one call of _make_request a 401 is followed by one token     *)
(* re-acquisition and one retry; a second 401 ends the call with no        *)
(* further token acquisition and no further request.                       *)
(***************************************************************************)
C2_OneReacquisitionOneRetry ==
    \A t \in Callers : \A i \in Resp(t, "401") :
        (\A k \in Resp(t, "401") : i <= k) =>
            /\ Cardinality(After(t, i, {"cached", "exchange"})) <= 1
            /\ Cardinality(After(t, i, {"send"})) <= 1

(***************************************************************************)
(* C3: after a 429 carrying Retry-After = r (60 without the header) every  *)
(* later request of the call leaves at least r seconds after the 429 was   *)
(* received, and a call in which a later attempt succeeds returns it.      *)
(***************************************************************************)
C3_RateLimitWaitThenSuccess ==
    \A t \in Callers : \A i \in At(t, "resp429") :
        LET r == IF log[t][i].a = NoHeader THEN 60 ELSE log[t][i].a IN
        /\ \A j \in After(t, i, {"send"}) : log[t][j].b >= log[t][i].b + r
        /\ (\E j \in Resp(t, "ok") : j > i) => pc[t] = "idle" /\ outcome[t] = "ok"

C3_Witness ==
    \E i \in At("t1", "resp429") :
        /\ log["t1"][i].a = 5
        /\ \E j \in After("t1", i, {"send"}) : log["t1"][j].b >= log["t1"][i].b + 5
        /\ \E j \in Resp("t1", "ok") : j > i
        /\ outcome["t1"] = "ok"

(***************************************************************************)
(* C9: refreshes of the token are serialized, no two callers are in the    *)
(* token exchange at the same time.                                        *)
(***************************************************************************)
C9_SingleFlightRefresh ==
    Cardinality({t \in Callers : pc[t] = "gat_post"}) <= 1

(***************************************************************************)
(* C10: every Graph request carries a token that is, at the time the       *)
(* request leaves, not older than its provider expiry minus 300 seconds.   *)
(***************************************************************************)
C10_TokenWithinMargin ==
    \A t \in Callers : \A i \in At(t, "send") :
        log[t][i].b <= Expiry(log[t][i].a) - 300

(***************************************************************************)
(* C11: a get_access_token that runs while a credential is absent ends     *)
(* with the configuration error and sends nothing to the token endpoint,   *)
(* whatever the token cache holds.                                         *)
(***************************************************************************)
C11_UnconfiguredAlwaysFails ==
    [][\A t \in Callers :
         (pc[t] = "gat" /\ pc'[t] # "gat" /\ ~configured) =>
             /\ pc'[t] = "idle"
             /\ outcome'[t] = "not_configured"
             /\ issued' = issued
    ]_vars

(***************************************************************************)
(* Reading the reader's state.                                             *)
(***************************************************************************)
HasId(m) == "id" \in DOMAIN m /\ m.id # EmptyId

\* the part of a row that normalization produces
Normalized(r) ==
    [k \in DOMAIN _convert_graph_email_to_model(<<>>, "") |-> r[k]]

\* a step of FetchPage in which the endpoint answered with messages
PageStep(w) ==
    /\ run[w].pc = "paging"
    /\ run'[w].requests = run[w].requests + 1
    /\ run'[w].page # <<>>

Did(w, what) == {i \in 1..Len(run[w].trace) : run[w].trace[i].did \in what}

(***************************************************************************)
(* C1: a message whose id is already stored for the account is, when       *)
(* fetched again and its transaction does not fail, counted as updated     *)
(* and not as new, and afterwards the account has exactly one row for the  *)
(* id, the row it had, holding the normalization of the payload just       *)
(* fetched.                                                                *)
(***************************************************************************)
C1_RefetchUpdatesInPlace ==
    [][\A w \in Workers : PageStep(w) =>
         LET a == run[w].inst.email
             page == run'[w].page
             tr == run'[w].trace
             stored == {i \in 1..Len(page) :
                          HasId(page[i]) /\ Rows(emails, page[i].id, a) # {}}
             fresh == {i \in 1..Len(page) : i \notin stored /\ tr[i].did = "created"}
             ok == {i \in stored : tr[i].did # "failed"}
         IN  /\ \A i \in ok : tr[i].did = "updated"
             /\ run'[w].result.updated_count = run[w].result.updated_count + Cardinality(ok)
             /\ run'[w].result.new_count = run[w].result.new_count + Cardinality(fresh)
             /\ \A i \in ok :
                  \E old \in Rows(emails, page[i].id, a), r \in emails' :
                     /\ Rows(emails', page[i].id, a) = {r}
                     /\ r.pk = old.pk
                     /\ Normalized(r) = _convert_graph_email_to_model(page[i], a)
    ]_vars

\* a fetch found message 1 edited and updated its row
C1_Witness ==
    \E w \in Workers : \E i \in Did(w, {"updated"}) :
        /\ run[w].page[i].subject = "s2"
        /\ run[w].result.updated_count > 0
        /\ \E r \in Rows(emails, run[w].page[i].id, run[w].inst.email) : r.subject = "s2"

(***************************************************************************)
(* C4: a call on an inactive account makes no Graph request and returns    *)
(* success = false with count, new_count and updated_count all zero.       *)
(***************************************************************************)
C4_InactiveResult ==
    \A w \in Workers :
        (run[w].pc # "idle" /\ ~run[w].inst.is_active) =>
            /\ run[w].pc = "returned"
            /\ run[w].requests = 0
            /\ run[w].result.success = FALSE
            /\ {"count", "new_count", "updated_count"} \subseteq DOMAIN run[w].result
            /\ run[w].result.count = 0
            /\ run[w].result.new_count = 0
            /\ run[w].result.updated_count = 0

(***************************************************************************)
(* C5: in every page a message without an id is skipped, it is not         *)
(* normalized, stored or counted, and every message of the page that has   *)
(* an id goes through the upsert: unless its own transaction fails, its    *)
(* row is stored.                                                          *)
(***************************************************************************)
C5_IdlessSkippedOthersUpserted ==
    [][\A w \in Workers : PageStep(w) =>
         LET a == run[w].inst.email
             page == run'[w].page
             tr == run'[w].trace
             done == {i \in 1..Len(tr) : tr[i].did \in {"created", "updated"}}
         IN  /\ Len(tr) = Len(page)
             /\ \A i \in 1..Len(page) :
                  IF HasId(page[i])
                     THEN /\ tr[i].did \in {"created", "updated", "failed"}
                          /\ tr[i].did # "failed" =>
                               \E r \in Rows(emails', page[i].id, a) :
                                  Normalized(r) = _convert_graph_email_to_model(page[i], a)
                     ELSE tr[i].did = "skipped"
             /\ \A r \in emails' : r.graph_id # EmptyId
             /\ Cardinality(emails') <= Cardinality(emails) + Cardinality(done)
             /\ run'[w].result.count = run[w].result.count + Cardinality(done)
             /\ run'[w].result.new_count + run'[w].result.updated_count
                  = run[w].result.new_count + run[w].result.updated_count + Cardinality(done)
    ]_vars

\* a page held a message without an id before two messages that were stored
C5_Witness ==
    \E w \in Workers :
        /\ Len(run[w].trace) >= 3
        /\ run[w].trace[1].did = "skipped"
        /\ run[w].trace[2].did = "created"
        /\ run[w].trace[3].did = "created"
        /\ run[w].result.count = 2

(***************************************************************************)
(* C6: when fetch_all_active_accounts returns, fetch_emails_for_account    *)
(* has been invoked exactly once for every active account, in order,       *)
(* whatever the earlier accounts' results were, there is one               *)
(* account_results entry per active account and successful_accounts +      *)
(* failed_accounts is the number of active accounts.                       *)
(***************************************************************************)
C6_FleetProcessesEveryAccount ==
    \A w \in Workers :
        fleet[w].pc = "returned" =>
            LET res == fleet[w].results IN
            /\ fleet[w].invoked = ActiveAccounts
            /\ DOMAIN res.account_results = {ActiveAccounts[i] : i \in 1..Len(ActiveAccounts)}
            /\ res.successful_accounts + res.failed_accounts = Len(ActiveAccounts)
            /\ res.successful_accounts =
                 Cardinality({a \in DOMAIN res.account_results : res.account_results[a].success})
            /\ res.total_accounts = Len(ActiveAccounts)

\* three accounts, the page fetch of the second failed, the third was fetched
C6_Witness ==
    \E w \in Workers :
        /\ fleet[w].pc = "returned"
        /\ fleet[w].invoked = Accounts
        /\ ~fleet[w].results.account_results[Accounts[2]].success
        /\ fleet[w].results.account_results[Accounts[2]].errors = <<ErrFetching>>
        /\ fleet[w].results.account_results[Accounts[3]].success
        /\ fleet[w].results.account_results[Accounts[3]].count = 1
        /\ fleet[w].results.successful_accounts = 2
        /\ fleet[w].results.failed_accounts = 1

(***************************************************************************)
(* C7: after a page, pagination stops exactly when the page is empty, or   *)
(* holds fewer messages than the page size requested, or the limit has     *)
(* been reached; otherwise the next page is requested at the offset        *)
(* advanced by the number of messages received.                            *)
(***************************************************************************)
C7_PaginationStopsExactlyWhen ==
    \A w \in Workers :
        LET r == run[w] IN
        (r.pc \in {"paging", "status"} /\ r.pages # <<>>) =>
            LET last == r.pages[Len(r.pages)] IN
            last.got >= 0 =>
                /\ r.pc = "status" <=>
                     \/ last.got = 0
                     \/ last.got < last.top
                     \/ (limit # NoLimit /\ r.total_fetched >= limit)
                /\ r.pc = "paging" => r.skip = last.skip + last.got

(***************************************************************************)
(* C8: with a limit L the call never upserts and reports more than L       *)
(* messages.                                                               *)
(***************************************************************************)
C8_CountWithinLimit ==
    \A w \in Workers :
        (run[w].pc \in {"paging", "status", "returned"} /\ run[w].inst.is_active
           /\ limit # NoLimit) =>
            run[w].result.count <= limit

(***************************************************************************)
(* Reading a finished fetch.                                               *)
(***************************************************************************)
\* a page request of the call ended in the fatal branch of lines 286-291
Fatal(r) == \E i \in 1..Len(r.pages) : r.pages[i].got = -1

\* the step in which the database accepts the status save of line 300
StatusStep(w) ==
    /\ run[w].pc = "status"
    /\ run'[w].pc = "returned"
    /\ run'[w].saves_failed = 0

(***************************************************************************)
(* C12: when a fetch of an active account completes and its status save    *)
(* is accepted, then with no fatal page-fetch error (per-message failures  *)
(* or not) the stored last_synced is the completion time and sync_error    *)
(* is null, and with a fatal page-fetch error sync_error is the first      *)
(* three collected errors and the stored last_synced is what it was.       *)
(***************************************************************************)
C12_SyncStatusAfterFetch ==
    [][\A w \in Workers : StatusStep(w) =>
         LET r == run[w]
             a == r.inst.email
             errors == r.result.errors
         IN  IF ~Fatal(r)
                THEN /\ account'[a].last_synced = now
                     /\ account'[a].sync_error = Null
                ELSE /\ account'[a].sync_error =
                          Text(SubSeq(errors, 1, IF Len(errors) < 3 THEN Len(errors) ELSE 3))
                     /\ account'[a].last_synced = account[a].last_synced
    ]_vars

\* a fetch that had synced before collected four errors, the last one
\* fatal: three of them are stored and last_synced is the earlier instant
C12_Witness ==
    \E w \in Workers :
        LET r == run[w] IN
        /\ r.pc = "returned" /\ r.inst.is_active /\ r.saves_failed = 0
        /\ Fatal(r)
        /\ Len(r.result.errors) = 4
        /\ account[r.inst.email].sync_error = Text(SubSeq(r.result.errors, 1, 3))
        /\ account[r.inst.email].last_synced # Never
        /\ account[r.inst.email].last_synced < now

(***************************************************************************)
(* C13: a fatal error on a page request ends the paging of that account:   *)
(* the error is appended to the result's errors, success is false, no      *)
(* further page is requested, and no stored row is removed or changed by   *)
(* the failing request or by the rest of the call.                         *)
(***************************************************************************)
C13_FatalPageStopsPaging ==
    [][\A w \in Workers :
         /\ (run[w].pc = "paging" /\ Fatal(run'[w])) =>
               /\ run'[w].pc = "status"
               /\ run'[w].result.success = FALSE
               /\ run'[w].result.errors = Append(run[w].result.errors, ErrFetching)
               /\ run'[w].result.count = run[w].result.count
               /\ emails' = emails
         /\ (Fatal(run[w]) /\ run'[w].pc # "idle") =>
               /\ run'[w].requests = run[w].requests
               /\ run'[w].result.success = FALSE
               /\ emails' = emails
    ]_vars

\* the second page request failed; the rows of the first page are stored
C13_Witness ==
    \E w \in Workers :
        LET r == run[w] IN
        /\ r.pc = "returned"
        /\ Len(r.pages) = 2 /\ r.pages[1].got > 0 /\ r.pages[2].got = -1
        /\ r.requests = 2
        /\ ~r.result.success
        /\ r.result.errors[Len(r.result.errors)] = ErrFetching
        /\ r.result.count > 0
        /\ Cardinality({e \in emails : e.email_account = r.inst.email}) = r.result.count

(***************************************************************************)
(* C14: the identity of a stored message is the pair (account, external    *)
(* id).  No two rows share a pair, and a fetched message whose id is       *)
(* stored under another account is created or updated for the fetching     *)
(* account, without an error, while the other account's rows stay as they  *)
(* are.                                                                    *)
(***************************************************************************)
C14_IdentityIsAccountAndId ==
    [][\A w \in Workers : PageStep(w) =>
         LET a == run[w].inst.email
             page == run'[w].page
             tr == run'[w].trace
             elsewhere == {i \in 1..Len(page) :
                             /\ HasId(page[i])
                             /\ \E e \in emails :
                                   e.graph_id = page[i].id /\ e.email_account # a
                             /\ tr[i].why \notin {"convert", "db"}}
         IN  /\ \A r1, r2 \in emails' :
                  (r1.graph_id = r2.graph_id /\ r1.email_account = r2.email_account)
                     => r1 = r2
             /\ {e \in emails' : e.email_account # a} = {e \in emails : e.email_account # a}
             /\ \A i \in elsewhere :
                  /\ tr[i].did \in {"created", "updated"}
                  /\ Rows(emails', page[i].id, a) # {}
    ]_vars

(***************************************************************************)
(* C15: fetch_emails_for_account ends by returning a result that has a     *)
(* success flag and a count, never by raising, whatever fails underneath   *)
(* it, the status save included; so fetch_all_active_accounts is never     *)
(* left by an exception of one account's fetch.                            *)
(***************************************************************************)
C15_AlwaysReturnsResult ==
    \A w \in Workers :
        /\ run[w].pc # "raised"
        /\ fleet[w].pc # "raised"
        /\ run[w].pc = "returned" => {"success", "count"} \subseteq DOMAIN run[w].result

(***************************************************************************)
(* One uninterrupted, undisturbed fetch of an account, from offset skip.   *)
(***************************************************************************)
RECURSIVE UninterruptedRun(_, _, _)
UninterruptedRun(st, a, skip) ==
    LET top == IF limit # NoLimit THEN limit ELSE DEFAULT_TOP
        messages == ListMessages(mailbox[a], Min(top, GRAPH_MAX_TOP), skip,
                                 FilterQuery(since))
        st2 == ProcessMessages(st, messages, 1, Len(messages), a, 0, 0)
    IN  IF messages = <<>>
           THEN st
           ELSE IF Len(messages) < top \/ (limit # NoLimit /\ st2.total_fetched >= limit)
                   THEN st2
                   ELSE UninterruptedRun(st2, a, skip + Len(messages))

EmptyTable ==
    [emails |-> {}, nextPk |-> 1, total_fetched |-> 0, trace |-> <<>>,
     result |-> [success |-> TRUE, count |-> 0, new_count |-> 0, updated_count |-> 0,
                 errors |-> <<>>]]

(***************************************************************************)
(* C16: however often the fetch of an account was interrupted between or   *)
(* inside message upserts, the table never holds a partially written row   *)
(* or two rows for one (account, id), and once a fetch over the same       *)
(* mailbox has run to completion, the interruptions being the only         *)
(* failures, the stored records are those of one uninterrupted fetch.      *)
(***************************************************************************)
C16_ResumeAfterCrash ==
    /\ \A e \in emails :
          \E i \in 1..Len(Messages(mailbox[e.email_account])) :
             LET m == Messages(mailbox[e.email_account])[i] IN
             HasId(m) /\ Normalized(e) = _convert_graph_email_to_model(m, e.email_account)
    /\ \A e1, e2 \in emails :
          (e1.graph_id = e2.graph_id /\ e1.email_account = e2.email_account) => e1 = e2
    /\ \A w \in Workers :
          (run[w].pc \in {"status", "returned"} /\ faults = 0) =>
              LET once == UninterruptedRun(EmptyTable, run[w].inst.email, 0).emails IN
              /\ {Normalized(e) : e \in emails} = {Normalized(e) : e \in once}
              /\ Cardinality(emails) = Cardinality(once)

\* the worker died after the first of several upserts; the next fetch
\* updated that row, created the others and completed
C16_Witness ==
    \E w \in Workers :
        /\ crashes > 0
        /\ run[w].pc = "returned" /\ faults = 0
        /\ run[w].result.updated_count = 1
        /\ run[w].result.new_count >= 1
        /\ Cardinality(emails) = run[w].result.count

(***************************************************************************)
(* C17: a request to fetch_all or fetch_account whose limit is given and   *)
(* is not a positive integer, or whose since is given and is not an        *)
(* ISO-8601 datetime, is answered with a validation error and causes no    *)
(* request to the token or the Graph endpoint.                             *)
(***************************************************************************)
InvalidLimit(raw) == raw \notin {"", "2"}

InvalidSince(raw) == raw \notin {"", "2024-01-01T00:00:00Z"}

C17_InvalidParametersRejected ==
    \A w \in Workers :
        (http[w].endpoint # "none"
           /\ (InvalidLimit(http[w].raw_limit) \/ InvalidSince(http[w].raw_since))) =>
            /\ run[w].requests = 0
            /\ (run[w].pc = "idle" /\ fleet[w].pc = "idle") => http[w].rejected

(***************************************************************************)
(* The payload key each named attribute of lines 147-170 is read from.     *)
(***************************************************************************)
AttributeSource ==
    [ graph_id |-> "id", internet_message_id |-> "internetMessageId",
      subject |-> "subject", from_email |-> "from", to_emails |-> "toRecipients",
      cc_emails |-> "ccRecipients", bcc_emails |-> "bccRecipients",
      body_text |-> "body", body_html |-> "body", body_preview |-> "bodyPreview",
      date_received |-> "receivedDateTime", date_sent |-> "sentDateTime",
      created_date_time |-> "createdDateTime",
      last_modified_date_time |-> "lastModifiedDateTime",
      importance |-> "importance", is_read |-> "isRead",
      is_read_receipt_requested |-> "isReadReceiptRequested",
      conversation_id |-> "conversationId", conversation_index |-> "conversationIndex",
      categories |-> "categories", flag |-> "flag",
      has_attachments |-> "hasAttachments", web_link |-> "webLink" ]

NamedKeys == {AttributeSource[f] : f \in DOMAIN AttributeSource}

(***************************************************************************)
(* C18: the graph_metadata stored for a message holds exactly the          *)
(* top-level keys of its payload that no named attribute is read from,     *)
(* each with the payload's value, so that every key of the payload is      *)
(* read by a named attribute or kept in graph_metadata.                    *)
(***************************************************************************)
C18_OverflowKeepsUnmappedKeys ==
    [][\A w \in Workers : PageStep(w) =>
         LET a == run[w].inst.email
             page == run'[w].page
             tr == run'[w].trace
         IN  \A i \in 1..Len(page) :
                tr[i].did \in {"created", "updated"} =>
                   \A r \in Rows(emails', page[i].id, a) :
                      /\ DOMAIN r.graph_metadata = DOMAIN page[i] \ NamedKeys
                      /\ \A k \in DOMAIN r.graph_metadata : r.graph_metadata[k] = page[i][k]
                      /\ DOMAIN page[i] \subseteq NamedKeys \cup DOMAIN r.graph_metadata
    ]_vars

\* rows with one and with two overflow keys are stored
C18_Witness ==
    /\ \E r \in emails : r.graph_metadata = [changeKey |-> "s1"]
    /\ \E r \in emails :
          /\ DOMAIN r.graph_metadata = {"parentFolderId", "isDraft"}
          /\ r.graph_metadata.parentFolderId = "inbox"
          /\ r.subject = "old"

(***************************************************************************)
(* C19: an answer with a non-success status other than 429 and 401 ends    *)
(* the call of _make_request at once with an error: it is the last event   *)
(* of the call, no sleep and no request follow it.                         *)
(***************************************************************************)
C19_OtherStatusFailsAtOnce ==
    \A t \in Callers : \A i \in Resp(t, "http_error") :
        /\ i = Len(log[t])
        /\ After(t, i, {"sleep", "send"}) = {}
        /\ pc[t] = "idle"
        /\ outcome[t] = "request_failed"

(***************************************************************************)
(* C20: one call of _make_request sends at most 3 requests, its attempt    *)
(* counter never passes 3, and when it ends with an error the error names  *)
(* the last failure the call observed.                                     *)
(***************************************************************************)
Observed(t) == {i \in 1..Len(log[t]) : log[t][i].ev \in {"resp", "resp429", "raise"}}

\* the error an ended call raised tells the failure of event e
Carries(error, e) ==
    CASE e.ev = "raise" -> error = e.a
      [] e.ev = "resp429" -> error = "rate_limited"
      [] e.ev = "resp" /\ e.a = "401" -> error = "unauthorized"
      [] e.ev = "resp" /\ e.a = "timeout" -> error = "timeout"
      [] e.ev = "resp" /\ e.a \in {"conn_error", "http_error"} -> error = "request_failed"
      [] OTHER -> FALSE

C20_BoundedAttemptsLastCause ==
    \A t \in Callers :
        /\ Cardinality(At(t, "send")) <= RETRY_COUNT
        /\ attempt[t] <= RETRY_COUNT
        /\ (pc[t] = "idle" /\ ret[t] # "caller" /\ outcome[t] \notin {"none", "ok"}) =>
              /\ Observed(t) # {}
              /\ \E i \in Observed(t) :
                    /\ \A j \in Observed(t) : j <= i
                    /\ Carries(outcome[t], log[t][i])

(***************************************************************************)
(* C21: in one call of _make_request the sleep after the n-th timeout or   *)
(* transport error is 2^(n-1) seconds, whatever 429 answers came between.  *)
(***************************************************************************)
TransportErrors(t) == Resp(t, "timeout") \cup Resp(t, "conn_error")

C21_BackoffCountsOnlyErrors ==
    \A t \in Callers : \A i \in TransportErrors(t) :
        (i < Len(log[t]) /\ log[t][i + 1].ev = "sleep") =>
            LET n == Cardinality({j \in TransportErrors(t) : j <= i}) IN
            log[t][i + 1].a = Pow2(n - 1)

(***************************************************************************)
(* C24: a token exchanged at time x with expires_in = e is in the cache    *)
(* until x + min(e - 300, 3300) and is served from the cache only before   *)
(* that instant: never 3300 seconds or more after the exchange, never      *)
(* later than 300 seconds before its expiry, and not at all when e <= 300. *)
(***************************************************************************)
C24_CachedForMinOfMarginAndCap ==
    /\ cache # NoCache =>
          LET x == issued[cache.tok].at
              e == issued[cache.tok].expires_in
          IN  cache.until = x + (IF e - 300 < 3300 THEN e - 300 ELSE 3300)
    /\ \A t \in Callers : \A i \in At(t, "cached") :
          LET tok == log[t][i].a
              x == issued[tok].at
              e == issued[tok].expires_in
          IN  /\ log[t][i].b < x + 3300
              /\ log[t][i].b < x + e - 300
              /\ e > 300

\* a token exchanged with expires_in = 200 was not in the cache for the
\* next call at the same instant, which exchanged another one
C24_Witness ==
    /\ Len(issued) >= 2
    /\ issued[1].expires_in = 200
    /\ issued[2].at = issued[1].at
    /\ cache.tok = 2
    /\ \E i \in At("t1", "exchange") : log["t1"][i].a = 2
    /\ calls["t1"] = 2 /\ outcome["t1"] = "ok"

(***************************************************************************)
(* C28: every sleep of a _make_request call is followed by another         *)
(* request of that call; the call never waits after its last attempt.      *)
(***************************************************************************)
C28_NoSleepAfterLastAttempt ==
    \A t \in Callers :
        pc[t] = "idle" =>
            \A i \in At(t, "sleep") : After(t, i, {"send"}) # {}

(***************************************************************************)
(* C29: the invalidation a caller performs on a 401 removes the token      *)
(* that was rejected and no other: a token another caller has cached in    *)
(* the meantime stays in the cache.                                        *)
(***************************************************************************)
C29_InvalidationSparesNewerToken ==
    [][\A t \in Callers :
         (pc[t] = "await" /\ pc'[t] = "gat" /\ cache.tok # token[t]) => cache' = cache
    ]_vars

(***************************************************************************)
(* C22: a message whose upsert fails leaves the table without a row or a  *)
(* change for it, adds exactly one error for it to the result's errors and *)
(* leaves success true; the other messages of the page are processed, and  *)
(* a full page below the limit is followed by the request of the next one. *)
(***************************************************************************)
C22_MessageFailureIsolated ==
    [][\A w \in Workers : PageStep(w) =>
         LET a == run[w].inst.email
             page == run'[w].page
             tr == run'[w].trace
             failed == {i \in 1..Len(tr) : tr[i].did = "failed"}
             old == run[w].result.errors
             new == run'[w].result.errors
             full == Len(page) >= run[w].top
             under == limit = NoLimit \/ run'[w].total_fetched < limit
         IN  /\ Len(tr) = Len(page)
             /\ \A i \in failed :
                  /\ Rows(emails', page[i].id, a) = Rows(emails, page[i].id, a)
                  /\ Cardinality({k \in 1..Len(new) : new[k] = ErrProcessing(page[i].id)})
                       = Cardinality({k \in 1..Len(old) : old[k] = ErrProcessing(page[i].id)}) + 1
             /\ Len(new) = Len(old) + Cardinality(failed)
             /\ SubSeq(new, 1, Len(old)) = old
             /\ run'[w].result.success = run[w].result.success
             /\ run'[w].result.success = TRUE
             /\ \A i \in 1..Len(page) :
                  (HasId(page[i]) /\ i \notin failed) =>
                      /\ tr[i].did \in {"created", "updated"}
                      /\ \E r \in Rows(emails', page[i].id, a) :
                            Normalized(r) = _convert_graph_email_to_model(page[i], a)
             /\ (full /\ under) =>
                  /\ run'[w].pc = "paging"
                  /\ run'[w].skip = run[w].skip + Len(page)
    ]_vars

\* the transaction of the first message of a page failed: no row for it,
\* one error, the second message is stored and the next page is due
C22_Witness ==
    \E w \in Workers :
        LET r == run[w] IN
        /\ r.pc = "paging" /\ Len(r.trace) = 2
        /\ r.trace[1].did = "failed" /\ r.trace[1].why = "db"
        /\ r.trace[2].did = "created"
        /\ r.result.success
        /\ r.result.errors = <<ErrProcessing(r.page[1].id)>>
        /\ Rows(emails, r.page[1].id, r.inst.email) = {}
        /\ Rows(emails, r.page[2].id, r.inst.email) # {}
        /\ r.skip = 2

(***************************************************************************)
(* C23: fetch_emails_for_account returns the result of an active account   *)
(* only after a save of the account's sync status has been executed: the   *)
(* stored sync_error is then the one the call computed, and so is the      *)
(* stored last_synced when the first save was accepted.  This holds after  *)
(* a clean fetch, after per-message failures, after a fatal page error     *)
(* and after an exception caught by the outer handler.                     *)
(***************************************************************************)
C23_StatusWrittenBeforeReturn ==
    [][\A w \in Workers :
         (run[w].pc # "returned" /\ run'[w].pc = "returned" /\ run'[w].inst.is_active) =>
             LET a == run'[w].inst.email IN
             /\ run[w].pc = "status"
             /\ run'[w].saves_failed \in {0, 1}
             /\ account'[a].sync_error = run'[w].inst.sync_error
             /\ account'[a].sync_error =
                   IF run'[w].result.success
                      THEN Null
                      ELSE IF run'[w].saves_failed = 1
                              THEN Text(<<ErrFailed>>)
                              ELSE Text(FirstErrors(run'[w].result.errors))
             /\ run'[w].saves_failed = 0 => account'[a].last_synced = run'[w].inst.last_synced
    ]_vars

\* the save of line 300 was refused after a clean fetch: the handler's
\* save stored its error and the failed result was returned
C23_Witness ==
    \E w \in Workers :
        LET r == run[w] IN
        /\ r.pc = "returned" /\ r.inst.is_active
        /\ r.saves_failed = 1
        /\ ~Fatal(r) /\ r.result.count > 0
        /\ ~r.result.success
        /\ account[r.inst.email].sync_error = Text(<<ErrFailed>>)

(***************************************************************************)
(* C25: in every result that fetch_emails_for_account holds or returns     *)
(* for an active account, count = new_count + updated_count, and a result  *)
(* with success = false has a non-empty error list.                        *)
(***************************************************************************)
C25_ResultConsistent ==
    /\ \A w \in Workers :
          (run[w].pc \in {"paging", "status", "returned", "raised"} /\ run[w].inst.is_active) =>
              LET res == run[w].result IN
              /\ res.count = res.new_count + res.updated_count
              /\ ~res.success => res.errors # <<>>
    /\ \A w \in Workers :
          fleet[w].pc # "idle" =>
          \A a \in DOMAIN fleet[w].results.account_results :
              LET res == fleet[w].results.account_results[a] IN
              /\ res.count = res.new_count + res.updated_count
              /\ ~res.success => res.errors # <<>>

\* a fetch that updated stored rows ended with a fatal page error
C25_Witness ==
    \E w \in Workers :
        LET r == run[w] IN
        /\ r.pc = "returned" /\ r.inst.is_active
        /\ ~r.result.success /\ Fatal(r)
        /\ r.result.errors # <<>>
        /\ r.result.updated_count > 0
        /\ r.result.count = r.result.updated_count + r.result.new_count

C26_FailedFetchKeepsLastSynced ==
    [][\A w \in RaceWorkers :
         (run[w].pc = "status" /\ run'[w].pc \in {"returned", "raised"} /\ Fatal(run[w])) =>
             account'[run[w].inst.email].last_synced = account[run[w].inst.email].last_synced
    ]_vars

(***************************************************************************)
(* C30: a fetch without a limit comes to its end, whatever mail arrives    *)
(* during it, and when it returns without a page-fetch error and without   *)
(* a failed upsert, every message that was in the mailbox when the call    *)
(* began, carries an id and matches the filter the call sends for its      *)
(* since has a row for the account.                                        *)
(***************************************************************************)
Clean(r) ==
    /\ ~Fatal(r)
    /\ \A k \in 1..Len(r.result.errors) : r.result.errors[k] = ErrFailed

====
